---- MODULE Spec2Model ----
(***************************************************************************)
(* Model of wasm/peaks.cpp: compute_peaks(samples, len, buckets,           *)
(* outMinMax).  One call of the function is a small state machine: the     *)
(* argument check, the bucket loop, the inner scan loop and the two        *)
(* stores per bucket.  The double arithmetic of the index computation and  *)
(* the single precision arithmetic of the scaling are modelled bit by bit  *)
(* (round to nearest, ties to even), on binary numbers kept as sequences   *)
(* of bits, because the rounding decides which samples a bucket scans and  *)
(* which integer a scaled value truncates to.                              *)
(***************************************************************************)
EXTENDS Integers, Sequences, FiniteSets, TLC

(***************************************************************************)
(* Binary numbers: a sequence of bits, most significant first.  A dyadic  *)
(* number is [m |-> bits, e |-> number of fractional bits]: its value is   *)
(* the integer m divided by 2^e.  Multiplication and division work on      *)
(* limbs of LimbBits bits, so that no intermediate value leaves 31 bits.   *)
(***************************************************************************)
LimbBits == 15

Base == 2 ^ LimbBits

Front(s) == SubSeq(s, 1, Len(s) - 1)

Last(s) == s[Len(s)]

Zeros(n) == [j \in 1..n |-> 0]

\* The number of bits of a natural number below 2^31.
BitLen(n) == IF n = 0 THEN 0
             ELSE IF n >= 2 ^ 30 THEN 31
             ELSE CHOOSE L \in 1..30 : 2 ^ (L - 1) <= n /\ n < 2 ^ L

NatToBits(n) == [j \in 1..BitLen(n) |-> (n \div 2 ^ (BitLen(n) - j)) % 2]

RECURSIVE BitsToNat(_)
BitsToNat(s) == IF s = << >> THEN 0 ELSE 2 * BitsToNat(Front(s)) + Last(s)

\* s without its leading zeros.
Strip(s) ==
    LET ones == {j \in 1..Len(s) : s[j] = 1}
    IN  IF ones = {} THEN << >>
        ELSE SubSeq(s, CHOOSE j \in ones : \A h \in ones : j <= h, Len(s))

ToLimbs(s) ==
    LET n   == (Len(s) + LimbBits - 1) \div LimbBits
        pad == Zeros(LimbBits * n - Len(s)) \o s
    IN  [h \in 1..n |->
            BitsToNat(SubSeq(pad, LimbBits * (h - 1) + 1, LimbBits * h))]

FromLimbs(q) ==
    [j \in 1..(LimbBits * Len(q)) |->
        (q[(j - 1) \div LimbBits + 1]
            \div 2 ^ (LimbBits - 1 - ((j - 1) % LimbBits))) % 2]

\* q * b + carry on limbs, for a natural b <= Base.
RECURSIVE MulLimbs(_, _, _)
MulLimbs(q, b, carry) ==
    IF q = << >> THEN (IF carry = 0 THEN << >> ELSE <<carry>>)
    ELSE LET t == b * Last(q) + carry
         IN  Append(MulLimbs(Front(q), b, t \div Base), t % Base)

\* s * b, for a natural b <= Base.
MulBits(s, b) == Strip(FromLimbs(MulLimbs(ToLimbs(s), b, 0)))

\* s + 1.
IncBits(s) ==
    LET zs == {j \in 1..Len(s) : s[j] = 0}
    IN  IF zs = {} THEN <<1>> \o Zeros(Len(s))
        ELSE LET p == CHOOSE j \in zs : \A h \in zs : h <= j
             IN  [j \in 1..Len(s) |->
                     IF j < p THEN s[j] ELSE IF j = p THEN 1 ELSE 0]

\* The first cnt limbs of the fraction r/k (r < k < Base).
RECURSIVE DivLimbs(_, _, _)
DivLimbs(r, k, cnt) ==
    IF cnt = 0 THEN << >>
    ELSE << (r * Base) \div k >> \o DivLimbs((r * Base) % k, k, cnt - 1)

\* The remainder left after cnt limbs of r/k.
RECURSIVE DivRem(_, _, _)
DivRem(r, k, cnt) ==
    IF cnt = 0 THEN r ELSE DivRem((r * Base) % k, k, cnt - 1)

\* a < b for two bit sequences.
BitsLess(a, b) ==
    LET sa == Strip(a)
        sb == Strip(b)
        df == {j \in 1..Len(sa) : sa[j] # sb[j]}
    IN  IF Len(sa) # Len(sb) THEN Len(sa) < Len(sb)
        ELSE /\ df # {}
             /\ sa[CHOOSE j \in df : \A h \in df : j <= h] = 0

\* IEEE-754 rounding of a dyadic number to prec significant bits, round to
\* nearest, ties to even.  The result keeps the same number of fractional
\* bits (the dropped positions become zeros).
RoundSig(d, prec) ==
    LET s == Strip(d.m)
        L == Len(s)
    IN  IF L <= prec THEN [m |-> s, e |-> d.e]
        ELSE LET keep   == SubSeq(s, 1, prec)
                 guard  == s[prec + 1]
                 sticky == \E j \in (prec + 2)..L : s[j] = 1
                 up     == guard = 1 /\ (sticky \/ keep[prec] = 1)
                 kept   == IF up THEN IncBits(keep) ELSE keep
             IN  [m |-> kept \o Zeros(L - prec), e |-> d.e]

\* The integer part of a dyadic number (truncation toward zero), as bits.
TruncBits(d) ==
    IF Len(d.m) <= d.e THEN << >> ELSE Strip(SubSeq(d.m, 1, Len(d.m) - d.e))

(***************************************************************************)
(* double (peaks.cpp:12-16): 53 significant bits.                          *)
(***************************************************************************)
DoubleBits == 53

FloatBits == 24

\* static_cast<double>(n) / static_cast<double>(k), for n >= 0 and
\* 0 < k < Base: the correctly rounded quotient.  DivLimbsCnt limbs hold
\* the leading zeros of the fraction, DoubleBits significant bits and a
\* guard bit; one more bit says whether anything non-zero follows.
DivLimbsCnt == (DoubleBits + 1 + LimbBits) \div LimbBits + 1

DivDouble(n, k) ==
    RoundSig([m |-> NatToBits(n \div k)
                      \o FromLimbs(DivLimbs(n % k, k, DivLimbsCnt))
                      \o << IF DivRem(n % k, k, DivLimbsCnt) # 0 THEN 1 ELSE 0 >>,
              e |-> LimbBits * DivLimbsCnt + 1], DoubleBits)

\* b * d in double, for an int b >= 0 (converted exactly) and a double d.
MulDouble(b, d) == RoundSig([m |-> MulBits(d.m, b), e |-> d.e], DoubleBits)

(***************************************************************************)
(* float: [nan, neg, num, sh] is NaN, or the value (+/-) num / 2^sh.       *)
(***************************************************************************)
F(neg, num, sh) == [nan |-> FALSE, neg |-> neg, num |-> num, sh |-> sh]

NaN == [nan |-> TRUE, neg |-> FALSE, num |-> 0, sh |-> 0]

\* The magnitude of a float with its binary point moved to position sh.
MagBits(v, sh) == Strip(NatToBits(v.num) \o Zeros(sh - v.sh))

\* a < b on floats (false when either is NaN; -0 is not below +0).
LessF(a, b) ==
    LET sh == IF a.sh > b.sh THEN a.sh ELSE b.sh
        ma == MagBits(a, sh)
        mb == MagBits(b, sh)
        an == a.neg /\ ma # << >>
        bn == b.neg /\ mb # << >>
    IN  /\ ~a.nan
        /\ ~b.nan
        /\ IF an /\ bn THEN BitsLess(mb, ma)
           ELSE IF an # bn THEN an
           ELSE BitsLess(ma, mb)

\* Variant: the product is not rounded to single precision.
MulFloatExact(v, c) == [m |-> MulBits(NatToBits(v.num), c), e |-> v.sh]

\* v * c in float, for a float v and a float constant c that is a small
\* natural number: the magnitude of the correctly rounded product.
MulFloat(v, c) ==
    RoundSig([m |-> MulBits(NatToBits(v.num), c), e |-> v.sh], FloatBits)

(***************************************************************************)
(* Integer conversions.                                                    *)
(***************************************************************************)
IntMin == -2147483647 - 1

IntMax == 2147483647

\* What a float-to-int conversion of an unrepresentable value can yield
\* (undefined behaviour: the "integer indefinite" value, a saturated value
\* or zero, depending on the target).
UndefinedInt == {IntMin, 0, IntMax}

\* static_cast<int>(x) / static_cast<int32_t>(x) of the number (+/-) d:
\* truncation toward zero; the set of possible results.
CastInt(neg, d) ==
    LET t == TruncBits(d)
    IN  IF Len(t) <= 31 THEN {IF neg THEN -BitsToNat(t) ELSE BitsToNat(t)}
        ELSE IF neg /\ t = <<1>> \o Zeros(31) THEN {IntMin}
        ELSE UndefinedInt

\* Variant: the upper clamp is missing.
Clamp16NoUpper(x) == IF x < -32768 THEN -32768 ELSE x

\* std::min<int32_t>(32767, std::max<int32_t>(-32768, x))
Clamp16(x) ==
    LET lo == IF x < -32768 THEN -32768 ELSE x
    IN  IF lo > 32767 THEN 32767 ELSE lo

\* static_cast<int16_t>(x): the low 16 bits, as a signed number.
Narrow16(x) == (((x % 65536) + 32768) % 65536) - 32768

(***************************************************************************)
(* The inputs of a call.                                                   *)
(***************************************************************************)
MaxLen == 3

MaxBuckets == 3

MaxIdxLen == 15

MaxIdxBuckets == 13

Zero == F(FALSE, 0, 0)

Quarter == F(FALSE, 1, 2)

Half == F(FALSE, 1, 1)

NegHalf == F(TRUE, 1, 1)

One == F(FALSE, 1, 0)

NegOne == F(TRUE, 1, 0)

\* 0.5000152587890625: 32767 times it is 16383.99998..., not a float.
AboveHalf == F(FALSE, 32769, 16)

NegOneAndHalf == F(TRUE, 3, 1)

\* 131072.0: 32767 times it does not fit an int32_t.
Huge == F(FALSE, 131072, 0)

SampleSeq == <<NegOneAndHalf, Half, NegOne, AboveHalf, One, Huge, NaN>>

SampleValues == {SampleSeq[j] : j \in 1..Len(SampleSeq)}

\* Values the output buffer holds before the call.
Sentinels == {12345, -7}

\* A sample buffer of n entries that runs through SampleSeq.
PatternSamples(n) == [j \in 0..(n - 1) |-> SampleSeq[(j % Len(SampleSeq)) + 1]]

\* The number of entries of the caller's output buffer.
OutLen(b) == IF b > 0 THEN 2 * b ELSE 2

Input(sn, on, n, b, smp, st) ==
    [samplesNull |-> sn, outNull |-> on, len |-> n, buckets |-> b,
     samples |-> smp, sentinel |-> st]

Invalid(sn, on, n, b) == sn \/ on \/ n <= 0 \/ b <= 0

InvalidInputs ==
    UNION {IF Invalid(a[1], a[2], a[3], a[4])
           THEN {Input(a[1], a[2], a[3], a[4],
                       IF a[1] \/ a[3] <= 0 THEN << >> ELSE PatternSamples(a[3]),
                       st) : st \in Sentinels}
           ELSE {} :
           a \in BOOLEAN \X BOOLEAN \X ((-1)..MaxLen) \X ((-1)..MaxBuckets)}

Scenario1 == [j \in 0..5 |-> <<Zero, Half, NegHalf, One, NegOne, Quarter>>[j + 1]]

ScenarioInputs ==
    {Input(FALSE, FALSE, 6, 2, Scenario1, st) : st \in Sentinels}
    \cup {Input(FALSE, FALSE, 1, 1, [j \in 0..0 |-> Zero], st) : st \in Sentinels}

ContentInputs ==
    UNION {{Input(FALSE, FALSE, n, b, smp, st) :
                smp \in [0..(n - 1) -> SampleValues],
                b \in 1..MaxBuckets, st \in Sentinels} : n \in 1..MaxLen}

IndexInputs ==
    {Input(FALSE, FALSE, n, b, PatternSamples(n), 12345) :
        n \in 1..MaxIdxLen, b \in 1..MaxIdxBuckets}

(***************************************************************************)
(* The state of one call of compute_peaks.                                 *)
(***************************************************************************)
VARIABLES samplesNull, outNull, samples, len, buckets, outMinMax, outBefore,
          pc, bucket, startIndex, endIndex, i, minVal, maxVal,
          scaledMin, scaledMax, trace, ranges

vars == <<samplesNull, outNull, samples, len, buckets, outMinMax, outBefore,
          pc, bucket, startIndex, endIndex, i, minVal, maxVal,
          scaledMin, scaledMax, trace, ranges>>

args == <<samplesNull, outNull, samples, len, buckets, outBefore>>

InitWith(c) ==
    /\ samplesNull = c.samplesNull
    /\ outNull = c.outNull
    /\ samples = c.samples
    /\ len = c.len
    /\ buckets = c.buckets
    /\ outMinMax = IF c.outNull THEN << >>
                   ELSE [j \in 0..(OutLen(c.buckets) - 1) |-> c.sentinel]
    /\ outBefore = outMinMax
    /\ pc = "entry"
    /\ bucket = 0
    /\ startIndex = 0
    /\ endIndex = 0
    /\ i = 0
    /\ minVal = One
    /\ maxVal = NegOne
    /\ scaledMin = 0
    /\ scaledMax = 0
    /\ trace = << >>
    /\ ranges = << >>

Init == \E c \in ContentInputs \cup ScenarioInputs \cup InvalidInputs : InitWith(c)

InitIdx == \E c \in IndexInputs \cup InvalidInputs : InitWith(c)

\* Variant: len = 0 is let through.
InvalidArgsLenSigned == samplesNull \/ outNull \/ len < 0 \/ buckets <= 0

\* peaks.cpp:8, the condition of the early return.
InvalidArgs == samplesNull \/ outNull \/ len <= 0 \/ buckets <= 0

\* Variant: a whole number of samples per bucket, rounded up.
samplesPerBucketCeil == DivDouble((len + buckets - 1) \div buckets, 1)

\* peaks.cpp:12
samplesPerBucket == DivDouble(len, buckets)

\* peaks.cpp:15, the possible values of startIndex for bucket b.
RawStart(b) == CastInt(FALSE, MulDouble(b, samplesPerBucket))

\* Variant: the end is the start plus the truncated bucket width.
RawEndFromStart(b) ==
    {s + t : s \in RawStart(b), t \in CastInt(FALSE, samplesPerBucket)}

\* peaks.cpp:16, the possible values of endIndex before its correction.
RawEnd(b) == CastInt(FALSE, MulDouble(b + 1, samplesPerBucket))

\* Variant: an empty range is not widened.
WidenStrict(e, s) == IF e < s THEN s + 1 ELSE e

\* peaks.cpp:17-19
Widen(e, s) == IF e <= s THEN s + 1 ELSE e

\* peaks.cpp:20-22
ClampEnd(e, n) == IF e > n THEN n ELSE e

\* Variant: the scan includes endIndex.
ScanContinuesInclusive(idx, e) == idx <= e

\* peaks.cpp:26, the condition of the scan loop.
ScanContinues(idx, e) == idx < e

\* Variant: the comparison is reversed.
UpdateMinReversed(value, cur) == IF LessF(cur, value) THEN value ELSE cur

\* peaks.cpp:28
UpdateMin(value, cur) == IF LessF(value, cur) THEN value ELSE cur

\* peaks.cpp:29
UpdateMax(value, cur) == IF LessF(cur, value) THEN value ELSE cur

\* Variant: the minimum goes to the slot of the maximum.
MinIndexOdd(b) == b * 2 + 1

\* peaks.cpp:35, the index of the stored minimum.
MinIndex(b) == b * 2

\* peaks.cpp:36, the index of the stored maximum.
MaxIndex(b) == b * 2 + 1

\* peaks.cpp:8-10, the guard holds.
EarlyReturn ==
    /\ pc = "entry"
    /\ InvalidArgs
    /\ pc' = "done"
    /\ UNCHANGED <<args, outMinMax, bucket, startIndex, endIndex, i, minVal,
                   maxVal, scaledMin, scaledMax, trace, ranges>>

\* peaks.cpp:8-14, the guard fails: the bucket loop starts.
Begin ==
    /\ pc = "entry"
    /\ ~InvalidArgs
    /\ bucket' = 0
    /\ pc' = "loop"
    /\ UNCHANGED <<args, outMinMax, startIndex, endIndex, i, minVal, maxVal,
                   scaledMin, scaledMax, trace, ranges>>

\* peaks.cpp:14-26: the range of the next bucket, the neutral bounds.
BucketRange ==
    /\ pc = "loop"
    /\ bucket < buckets
    /\ \E s \in RawStart(bucket), e \in RawEnd(bucket) :
            /\ startIndex' = s
            /\ endIndex' = ClampEnd(Widen(e, s), len)
            /\ i' = s
    /\ minVal' = One
    /\ maxVal' = NegOne
    /\ ranges' = Append(ranges, <<startIndex', endIndex'>>)
    /\ pc' = "scan"
    /\ UNCHANGED <<args, outMinMax, bucket, scaledMin, scaledMax, trace>>

\* peaks.cpp:26-30: one iteration of the scan.  A read outside the sample
\* buffer yields any value.
ScanStep ==
    /\ pc = "scan"
    /\ ScanContinues(i, endIndex)
    /\ \E value \in (IF i \in DOMAIN samples THEN {samples[i]} ELSE SampleValues) :
            /\ minVal' = UpdateMin(value, minVal)
            /\ maxVal' = UpdateMax(value, maxVal)
    /\ trace' = Append(trace, <<"r", "samples", i>>)
    /\ i' = i + 1
    /\ UNCHANGED <<args, outMinMax, pc, bucket, startIndex, endIndex,
                   scaledMin, scaledMax, ranges>>

\* peaks.cpp:26, 32-33: the scan is over, the bounds are scaled.
Scale ==
    /\ pc = "scan"
    /\ ~ScanContinues(i, endIndex)
    /\ scaledMin' \in CastInt(minVal.neg, MulFloat(minVal, 32768))
    /\ scaledMax' \in CastInt(maxVal.neg, MulFloat(maxVal, 32767))
    /\ pc' = "storeMin"
    /\ UNCHANGED <<args, outMinMax, bucket, startIndex, endIndex, i, minVal,
                   maxVal, trace, ranges>>

\* A store to the output buffer; a store outside it changes no entry.
Store(buf, idx, v) == IF idx \in DOMAIN buf THEN [buf EXCEPT ![idx] = v] ELSE buf

\* peaks.cpp:35
StoreMin ==
    /\ pc = "storeMin"
    /\ outMinMax' = Store(outMinMax, MinIndex(bucket), Narrow16(Clamp16(scaledMin)))
    /\ trace' = Append(trace, <<"w", "out", MinIndex(bucket)>>)
    /\ pc' = "storeMax"
    /\ UNCHANGED <<args, bucket, startIndex, endIndex, i, minVal, maxVal,
                   scaledMin, scaledMax, ranges>>

\* peaks.cpp:36, 14: the second store and ++bucket.
StoreMax ==
    /\ pc = "storeMax"
    /\ outMinMax' = Store(outMinMax, MaxIndex(bucket), Narrow16(Clamp16(scaledMax)))
    /\ trace' = Append(trace, <<"w", "out", MaxIndex(bucket)>>)
    /\ bucket' = bucket + 1
    /\ pc' = "loop"
    /\ UNCHANGED <<args, startIndex, endIndex, i, minVal, maxVal,
                   scaledMin, scaledMax, ranges>>

\* peaks.cpp:14, 37-38: the bucket loop is over.
Return ==
    /\ pc = "loop"
    /\ bucket >= buckets
    /\ pc' = "done"
    /\ UNCHANGED <<args, outMinMax, bucket, startIndex, endIndex, i, minVal,
                   maxVal, scaledMin, scaledMax, trace, ranges>>

Next ==
    \/ EarlyReturn
    \/ Begin
    \/ BucketRange
    \/ ScanStep
    \/ Scale
    \/ StoreMin
    \/ StoreMax
    \/ Return

Spec == Init /\ [][Next]_vars

SpecIdx == InitIdx /\ [][Next]_vars

(***************************************************************************)
(* Properties.                                                             *)
(***************************************************************************)
\* The call has valid arguments (the contract's precondition).
Valid == ~samplesNull /\ ~outNull /\ len > 0 /\ buckets > 0

\* The indices stored to the output buffer so far, in the order of the stores.
OutWrites == SelectSeq(trace, LAMBDA t : t[1] = "w" /\ t[2] = "out")

RangeLen(r) == r[2] - r[1]

\* The float v lies in [-1, 1].
InRange(v) == ~v.nan /\ v.num <= 2 ^ v.sh

AllInRange == \A j \in DOMAIN samples : InRange(samples[j])

\* An in-range float as a signed multiple of 2^-16.
Q16(v) == (IF v.neg THEN -1 ELSE 1) * v.num * 2 ^ (16 - v.sh)

\* The samples of the b-th scanned range (b = 1 for bucket 0).
BucketVals(b) == {samples[j] : j \in ranges[b][1]..(ranges[b][2] - 1)}

TrueMin(b) == CHOOSE v \in BucketVals(b) : \A w \in BucketVals(b) : Q16(v) <= Q16(w)

TrueMax(b) == CHOOSE v \in BucketVals(b) : \A w \in BucketVals(b) : Q16(w) <= Q16(v)

Sign(v) == IF v.neg THEN -1 ELSE 1

\* trunc(v * c) for the real product of an in-range float and a constant.
ExactScaled(v, c) == Sign(v) * ((v.num * c) \div 2 ^ v.sh)

\* trunc(fl(v * c)), where fl rounds the real product to the nearest number
\* of FloatBits significant bits, ties to even.
RoundedScaled(v, c) ==
    LET p    == v.num * c
        drop == BitLen(p) - FloatBits
        q    == p \div 2 ^ drop
        rem  == p % 2 ^ drop
        half == 2 ^ (drop - 1)
        up   == rem > half \/ (rem = half /\ q % 2 = 1)
        r    == IF drop <= 0 THEN p ELSE (IF up THEN q + 1 ELSE q) * 2 ^ drop
    IN  Sign(v) * (r \div 2 ^ v.sh)

\* x clamped into [-32768, 32767].
Sat16(x) == IF x > 32767 THEN 32767 ELSE IF x < -32768 THEN -32768 ELSE x

\* C1: a call with samples absent, outMinMax absent, len <= 0 or
\* buckets <= 0 leaves every entry of the output buffer as it was before the
\* call and reads no sample, at every point of the call.
C1_InvalidNoOp ==
    ~Valid => /\ outMinMax = outBefore
              /\ trace = << >>
              /\ pc \in {"entry", "done"}

\* C1 witness: a returned call refused only for buckets <= 0, over a
\* pre-filled output buffer.
C1_Witness ==
    /\ pc = "done"
    /\ ~samplesNull /\ ~outNull /\ len > 0 /\ buckets <= 0
    /\ DOMAIN outMinMax # {}
    /\ \A j \in DOMAIN outMinMax : outMinMax[j] = 12345

\* C2: in a valid call every store goes to outMinMax[0 .. buckets*2), every
\* read comes from samples[0 .. len), and on return exactly buckets*2 entries
\* have been written.
C2_InBounds ==
    Valid =>
        /\ \A k \in 1..Len(trace) :
              /\ trace[k][2] = "out" => trace[k][3] \in 0..(2 * buckets - 1)
              /\ trace[k][2] = "samples" => trace[k][3] \in 0..(len - 1)
        /\ pc = "done" =>
              /\ Len(OutWrites) = 2 * buckets
              /\ {OutWrites[k][3] : k \in 1..Len(OutWrites)} = 0..(2 * buckets - 1)

\* C2 witness: a returned call with more buckets than samples.
C2_Witness ==
    /\ pc = "done"
    /\ Valid
    /\ buckets > len
    /\ Len(OutWrites) = 2 * buckets
    /\ \E k \in 1..Len(trace) : trace[k] = <<"r", "samples", len - 1>>

C7_NonEmptyInside ==
    Valid =>
        /\ \A b \in 1..Len(ranges) :
              0 <= ranges[b][1] /\ ranges[b][1] < ranges[b][2] /\ ranges[b][2] <= len
        /\ pc \in {"storeMin", "storeMax"} =>
              /\ i = endIndex
              /\ i > startIndex
              /\ trace[Len(trace) - (IF pc = "storeMax" THEN 1 ELSE 0)]
                    = <<"r", "samples", endIndex - 1>>

\* C7 witness: the last bucket of len = 2, buckets = 5 about to be stored.
C7_Witness ==
    /\ pc = "storeMin"
    /\ Valid
    /\ len = 2
    /\ buckets = 5
    /\ bucket = 4
    /\ startIndex = 1
    /\ endIndex = 2

\* C8: the stores of a valid call go to the indices 0, 1, 2, ... in this
\* order, each index once, buckets*2 of them on return; no output entry is
\* read and no sample is written.
C8_LeftToRight ==
    Valid =>
        /\ \A k \in 1..Len(OutWrites) : OutWrites[k][3] = k - 1
        /\ \A k \in 1..Len(trace) :
              \/ trace[k][1] = "w" /\ trace[k][2] = "out"
              \/ trace[k][1] = "r" /\ trace[k][2] = "samples"
        /\ pc = "done" => Len(OutWrites) = 2 * buckets
        /\ \A j \in DOMAIN outMinMax :
              j >= Len(OutWrites) => outMinMax[j] = outBefore[j]

\* C8 witness: a returned call that stored at least two buckets.
C8_Witness ==
    /\ pc = "done"
    /\ Valid
    /\ buckets >= 2
    /\ Len(OutWrites) = 2 * buckets
    /\ OutWrites[4][3] = 3

\* C9: the lengths of the scanned ranges of any two buckets of a valid call
\* differ by at most one.
C9_LengthsWithinOne ==
    Valid =>
        \A a \in 1..Len(ranges), b \in 1..Len(ranges) :
            RangeLen(ranges[a]) - RangeLen(ranges[b]) <= 1

\* C9 witness: a returned call whose ranges have two different lengths.
C9_Witness ==
    /\ pc = "done"
    /\ Valid
    /\ Len(ranges) = buckets
    /\ \E a \in 1..buckets, b \in 1..buckets :
          RangeLen(ranges[a]) = RangeLen(ranges[b]) + 1

\* C10: on return from a valid call every sample index in [0, len) lies in
\* the scanned range of some bucket; the first range starts at 0 and the last
\* ends at len.
C10_NoSampleDropped ==
    (pc = "done" /\ Valid) =>
        /\ \A j \in 0..(len - 1) :
              \E b \in 1..Len(ranges) : ranges[b][1] <= j /\ j < ranges[b][2]
        /\ ranges[1][1] = 0
        /\ ranges[Len(ranges)][2] = len

\* C3 as stated: for every stored bucket of a valid call over samples in
\* [-1, 1], the first entry is trunc(m * 32768) and the second is
\* trunc(M * 32767), clamped into [-32768, 32767], with m and M the minimum
\* and maximum of the bucket's range and the products taken exactly.
C3_ExactScaling ==
    (Valid /\ AllInRange) =>
        \A b \in 1..bucket :
            /\ outMinMax[2 * (b - 1)] = Sat16(ExactScaled(TrueMin(b), 32768))
            /\ outMinMax[2 * (b - 1) + 1] = Sat16(ExactScaled(TrueMax(b), 32767))

\* C3 amended: as C3, with each product rounded to the nearest single
\* precision number (ties to even) before it is truncated; whatever the
\* output buffer held before, samples [0.0, 0.5, -0.5, 1.0, -1.0, 0.25] with
\* buckets = 2 give [-16384, 16383, -32768, 32767].
C3_RoundedScaling ==
    /\ (Valid /\ AllInRange) =>
          \A b \in 1..bucket :
              /\ outMinMax[2 * (b - 1)] = Sat16(RoundedScaled(TrueMin(b), 32768))
              /\ outMinMax[2 * (b - 1) + 1] = Sat16(RoundedScaled(TrueMax(b), 32767))
    /\ (pc = "done" /\ Valid /\ samples = Scenario1 /\ buckets = 2) =>
          outMinMax = [j \in 0..3 |-> <<-16384, 16383, -32768, 32767>>[j + 1]]

\* C3 witness: the maximum 0.5000152587890625 stored as 16384, although
\* 32767 times it is below 16384.
C3_Witness ==
    /\ pc = "done"
    /\ Valid
    /\ len = 1
    /\ samples[0] = AboveHalf
    /\ outBefore[1] = -7
    /\ outMinMax[1] = 16384
    /\ ExactScaled(AboveHalf, 32767) = 16383

\* C4 as stated: for every stored bucket of a valid call over samples in
\* [-1, 1], out[2b] / 32768 <= out[2b+1] / 32767.
C4_MinNotAboveMax ==
    (Valid /\ AllInRange) =>
        \A b \in 0..(bucket - 1) :
            outMinMax[2 * b] * 32767 <= outMinMax[2 * b + 1] * 32768

\* C4 amended: for every stored bucket of a valid call over samples in
\* [-1, 1], the stored minimum is below the stored maximum plus one on the
\* comparable scale: out[2b] / 32768 <= (out[2b+1] + 1) / 32767.
C4_MinWithinOneStep ==
    (Valid /\ AllInRange) =>
        \A b \in 0..(bucket - 1) :
            outMinMax[2 * b] * 32767 <= (outMinMax[2 * b + 1] + 1) * 32768

\* C4 witness: the single sample 0.5 stored as minimum 16384, maximum 16383.
C4_Witness ==
    /\ pc = "done"
    /\ Valid
    /\ len = 1
    /\ samples[0] = Half
    /\ outMinMax[0] = 16384
    /\ outMinMax[1] = 16383

\* C5: every entry of the output buffer of a valid call lies in
\* [-32768, 32767], whatever the samples are, and each stored entry is the
\* scaled 32 bit value clamped into that interval: the narrowing to 16 bits
\* never wraps.
C5_ClampedNoWrap ==
    Valid =>
        /\ \A j \in DOMAIN outMinMax : outMinMax[j] \in -32768..32767
        /\ pc = "storeMax" => outMinMax[2 * bucket] = Sat16(scaledMin)
        /\ (pc \in {"loop", "done"} /\ bucket > 0) =>
              /\ outMinMax[2 * (bucket - 1)] = Sat16(scaledMin)
              /\ outMinMax[2 * (bucket - 1) + 1] = Sat16(scaledMax)

\* C5 witness: the sample -1.5, scaled to -49152, stored as -32768.
C5_Witness ==
    /\ pc = "storeMax"
    /\ Valid
    /\ minVal = NegOneAndHalf
    /\ scaledMin = -49152
    /\ outMinMax[2 * bucket] = -32768

====
